---- MODULE Spec2Model ----
(***************************************************************************)
(* Model of the git automation agent (src/agent.py): the Agent object, the *)
(* local path it manages, the working copy found there (working tree,      *)
(* index, HEAD, checked-out branch) and the remote.  Each public method of  *)
(* Agent is one action; the methods it calls (ensure_repo, preview_edits,   *)
(* ensure_clean_worktree, secret_scan, _paths_changed_by_worktree) are      *)
(* operators on a record of the whole state, so that an action is the       *)
(* whole call.                                                              *)
(*                                                                         *)
(* File contents are sequences of atoms: "h" is ordinary text, "NL" a line  *)
(* terminator, "BIN" a byte that is not valid UTF-8, and one atom for the   *)
(* text each secret detector matches.                                       *)
(***************************************************************************)
EXTENDS Integers, Sequences, FiniteSets, TLC

\* Bound of the model: the number of calls made on the agent in one behaviour.
MaxOps == 2

(***************************************************************************)
(* Files and contents                                                      *)
(***************************************************************************)
Paths == {"README.md", "conf/key.pem"}

\* git status lists entries sorted by path.
PathOrder == <<"README.md", "conf/key.pem">>

\* The directory part of a repository-relative path ("" at the root).
DirOf(p) == IF p = "conf/key.pem" THEN "conf/" ELSE ""

NoFile == <<"ENOENT">>
Empty == <<>>
Hello == <<"h">>
HelloNL == <<"h", "NL">>
Pem == <<"PEM", "NL">>
PemBin == <<"PEM", "BIN">>


EmptyTree == [p \in Paths |-> NoFile]
TreeNL == [p \in Paths |-> IF p = "README.md" THEN HelloNL ELSE NoFile]
TreeNoNL == [p \in Paths |-> IF p = "README.md" THEN Hello ELSE NoFile]

\* What the working tree holds before the agent is constructed, given the
\* tree t of the checked-out commit: t itself (clean), a tracked file edited
\* or deleted, an untracked file that is not valid UTF-8.
InitDisks(t) ==
    {t,
     [t EXCEPT !["README.md"] = <<"h", "h">>],
     [t EXCEPT !["README.md"] = NoFile],
     [t EXCEPT !["conf/key.pem"] = PemBin]}

NoCommit == <<"none", 0>>
BaseCommit == <<"base", 0>>
OtherCommit == <<"other", 0>>
AgentCommit(n) == <<"agent", n>>

Range(s) == {s[i] : i \in 1..Len(s)}

\* An EditSet: an ordered mapping path -> content (dict order, distinct keys).
EditSets ==
    {<<[path |-> "README.md", content |-> c]>> : c \in {Hello, HelloNL}}
    \cup {<<[path |-> "conf/key.pem", content |-> Pem]>>}
    \cup {<<[path |-> "conf/key.pem", content |-> Hello], [path |-> "README.md", content |-> Pem]>>}

(***************************************************************************)
(* Text helpers                                                            *)
(***************************************************************************)
\* Path.read_text(encoding='utf-8'): the content, or an error (OSError for a
\* missing file or a directory, UnicodeDecodeError for invalid UTF-8).
CanRead(d, name) == name \in Paths /\ d[name] # NoFile /\ "BIN" \notin Range(d[name])

\* The callers' pattern: try read_text, except ...: content = ''.
ReadOrEmpty(d, name) == IF CanRead(d, name) THEN d[name] ELSE Empty

\* str.splitlines(keepends=True)
RECURSIVE SplitFrom(_, _, _)
SplitFrom(s, i, cur) ==
    IF i > Len(s) THEN (IF cur = <<>> THEN <<>> ELSE <<cur>>)
    ELSE IF s[i] = "NL" THEN <<Append(cur, s[i])>> \o SplitFrom(s, i + 1, <<>>)
    ELSE SplitFrom(s, i + 1, Append(cur, s[i]))

splitlines(s) == SplitFrom(s, 1, <<>>)

\* ''.join(difflib.unified_diff(old_lines, new_lines, ...)): empty exactly when
\* the two line lists are equal; otherwise a header and the hunks.
unified_diff(old, new) ==
    IF splitlines(old) = splitlines(new) THEN <<>>
    ELSE <<"---", "+++", "@@">> \o old \o <<"=>">> \o new

\* repo.git.show(...) returns the command's stdout with one trailing newline
\* removed.
StripNewline(s) ==
    IF Len(s) > 0 /\ s[Len(s)] = "NL" THEN SubSeq(s, 1, Len(s) - 1) ELSE s

(***************************************************************************)
(* Secret scan                                                             *)
(***************************************************************************)
\* The character classes of the patterns.
Upper ==
    {"A", "B", "C", "D", "E", "F", "G", "H", "I", "J", "K", "L", "M", "N",
    "O", "P", "Q", "R", "S", "T", "U", "V", "W", "X", "Y", "Z"}

Lower ==
    {"a", "b", "c", "d", "e", "f", "g", "h", "i", "j", "k", "l", "m", "n",
    "o", "p", "q", "r", "s", "t", "u", "v", "w", "x", "y", "z"}

Digit ==
    {"0", "1", "2", "3", "4", "5", "6", "7", "8", "9"}

Alnum == Upper \cup Lower \cup Digit

UpperSeq ==
    <<"A", "B", "C", "D", "E", "F", "G", "H", "I", "J", "K", "L", "M", "N",
    "O", "P", "Q", "R", "S", "T", "U", "V", "W", "X", "Y", "Z">>

LowerSeq ==
    <<"a", "b", "c", "d", "e", "f", "g", "h", "i", "j", "k", "l", "m", "n",
    "o", "p", "q", "r", "s", "t", "u", "v", "w", "x", "y", "z">>

\* The case folding of the (?i) flag.
ToLower(c) == IF c \in Upper THEN LowerSeq[CHOOSE i \in 1..Len(UpperSeq) : UpperSeq[i] = c] ELSE c

Rep(c, n) == [i \in 1..n |-> c]

RECURSIVE Cat(_)
Cat(ss) == IF ss = <<>> THEN <<>> ELSE Head(ss) \o Cat(Tail(ss))

\* A base64-like run of 40 characters with no 32 alphanumerics in a row.
B40 == Cat(Rep(Rep("A", 7) \o <<"/">>, 5))

PemHeader ==
    <<"-", "-", "-", "-", "-", "B", "E", "G", "I", "N", " ", "P", "R", "I",
    "V", "A", "T", "E", " ", "K", "E", "Y", "-", "-", "-", "-", "-">>

RsaPemHeader ==
    <<"-", "-", "-", "-", "-", "B", "E", "G", "I", "N", " ", "R", "S", "A",
    " ", "P", "R", "I", "V", "A", "T", "E", " ", "K", "E", "Y", "-", "-",
    "-", "-", "-">>

AwsSecretKeyEquals ==
    <<"a", "w", "s", "_", "s", "e", "c", "r", "e", "t", "_", "k", "e", "y",
    "=">>

\* The text each atom of a content stands for, character by character.
\* "BIN" is one byte that is no character of any class.
AtomText ==
    [a \in {"h", "NL", "BIN", "AKIA", "AWSSECRET", "PEM", "RSAPEM", "JWT", "ALNUM32", "ALNUM31",
            "AWSKEY=", "AWSKEY_SP", "AWS", "GAP20", "SECRETS:", "B40", "B39", "AKIA15", "eyJ", "."} |->
        CASE a = "h" -> <<"h", "e", "l", "l", "o">>
          [] a = "NL" -> <<"\n">>
          [] a = "BIN" -> <<"BIN">>
          [] a = "AKIA" -> <<"A", "K", "I", "A">> \o Rep("0", 8) \o Rep("Z", 8)
          [] a = "AKIA15" -> <<"A", "K", "I", "A">> \o Rep("0", 8) \o Rep("Z", 7)
          [] a = "AWSSECRET" -> AwsSecretKeyEquals \o B40
          [] a = "PEM" -> PemHeader
          [] a = "RSAPEM" -> RsaPemHeader
          [] a = "JWT" -> <<"e", "y", "J", "h", ".", "e", ".", "o">>
          [] a = "ALNUM32" -> Rep("A", 32)
          [] a = "ALNUM31" -> Rep("A", 31)
          [] a = "AWSKEY=" -> AwsSecretKeyEquals
          [] a = "AWSKEY_SP" -> SubSeq(AwsSecretKeyEquals, 1, 14) \o <<" ">>
          [] a = "AWS" -> <<"A", "W", "S">>
          [] a = "GAP20" -> Rep("-", 20)
          [] a = "SECRETS:" -> <<"s", "e", "c", "r", "e", "t", "s", ":">>
          [] a = "B40" -> B40
          [] a = "B39" -> SubSeq(B40, 1, 39)
          [] a = "eyJ" -> <<"e", "y", "J">>
          [] a = "." -> <<".">>]

\* The string a content is.
Text(content) == Cat([i \in 1..Len(content) |-> AtomText[content[i]]])

\* The number of characters of the class in a row from position i on.
RunLen(text, i, class) ==
    LET stops == {j \in i..Len(text) : text[j] \notin class} IN
    IF i > Len(text) THEN 0
    ELSE IF stops = {} THEN Len(text) + 1 - i
    ELSE (CHOOSE j \in stops : \A k \in stops : j <= k) - i

\* The literal stands at position i.
LitAt(text, i, lit) ==
    /\ i + Len(lit) - 1 <= Len(text)
    /\ \A k \in 1..Len(lit) : text[i + k - 1] = lit[k]

\* The same, letters compared without case.
LitAtIgnoreCase(text, i, lit) ==
    /\ i + Len(lit) - 1 <= Len(text)
    /\ \A k \in 1..Len(lit) : ToLower(text[i + k - 1]) = ToLower(lit[k])

\* [\\s:=] under (?i): a backslash, the letter s in either case, a colon or
\* an equals sign (the pattern is a raw string, so \\s is no whitespace class).
SeparatorClass == {"\\", "s", "S", ":", "="}

\* [A-Za-z0-9/+=]
Base64Class == Alnum \cup {"/", "+", "="}

\* [0-9A-Za-z_\\-]
JwtClass == Alnum \cup {"_", "\\", "-"}

\* AKIA[0-9A-Z]{16}
SearchAwsAccessKey(text) ==
    \E i \in 1..Len(text) :
        LitAt(text, i, <<"A", "K", "I", "A">>) /\ RunLen(text, i + 4, Digit \cup Upper) >= 16

\* (?i)aws(.{0,20})?(secret|secret_key)[\\s:=]+[A-Za-z0-9/+=]{40}
SearchAwsSecretKey(text) ==
    \E i \in 1..Len(text) :
        /\ LitAtIgnoreCase(text, i, <<"a", "w", "s">>)
        /\ \E gap \in 0..20 :
              /\ RunLen(text, i + 3, {text[k] : k \in 1..Len(text)} \ {"\n"}) >= gap
              /\ \E word \in {SubSeq(AwsSecretKeyEquals, 5, 10), SubSeq(AwsSecretKeyEquals, 5, 14)} :
                    /\ LitAtIgnoreCase(text, i + 3 + gap, word)
                    /\ LET p == i + 3 + gap + Len(word) IN
                       \E m \in 1..RunLen(text, p, SeparatorClass) :
                           RunLen(text, p + m, Base64Class) >= 40

\* eyJ[0-9A-Za-z_\\-]+\.[0-9A-Za-z_\\-]+\.[0-9A-Za-z_\\-]+
SearchJwt(text) ==
    \E i \in 1..Len(text) :
        /\ LitAt(text, i, <<"e", "y", "J">>)
        /\ LET n1 == RunLen(text, i + 3, JwtClass)
               d1 == i + 3 + n1
               n2 == RunLen(text, d1 + 1, JwtClass)
               d2 == d1 + 1 + n2
           IN /\ n1 >= 1 /\ LitAt(text, d1, <<".">>)
              /\ n2 >= 1 /\ LitAt(text, d2, <<".">>)
              /\ RunLen(text, d2 + 1, JwtClass) >= 1

\* pattern.search(content) for the pattern of each detector.
Search(re, text) ==
    CASE re = "aws_access_key" -> SearchAwsAccessKey(text)
      [] re = "aws_secret_key" -> SearchAwsSecretKey(text)
      [] re = "private_key_pem" -> \E i \in 1..Len(text) : LitAt(text, i, PemHeader)
      [] re = "rsa_private_key" -> \E i \in 1..Len(text) : LitAt(text, i, RsaPemHeader)
      [] re = "jwt" -> SearchJwt(text)
      [] re = "generic_api_key" -> \E i \in 1..Len(text) : RunLen(text, i, Alnum) >= 32

SECRET_PATTERNS == <<
    [name |-> "AWS Access Key", re |-> "aws_access_key"],
    [name |-> "AWS Secret Key", re |-> "aws_secret_key"],
    [name |-> "Private Key PEM", re |-> "private_key_pem"],
    [name |-> "RSA PRIVATE KEY", re |-> "rsa_private_key"],
    [name |-> "JWT token", re |-> "jwt"],
    [name |-> "Generic API Key", re |-> "generic_api_key"] >>

\* secret_scan returning at the first detector that matches.
RECURSIVE ScanFrom_first_match_only(_, _)
ScanFrom_first_match_only(text, i) ==
    IF i > Len(SECRET_PATTERNS) THEN <<>>
    ELSE IF Search(SECRET_PATTERNS[i].re, text) THEN <<SECRET_PATTERNS[i].name>>
    ELSE ScanFrom_first_match_only(text, i + 1)

\* The loop of secret_scan over the detectors from the i-th on.
RECURSIVE ScanFrom(_, _)
ScanFrom(text, i) ==
    IF i > Len(SECRET_PATTERNS) THEN <<>>
    ELSE (IF Search(SECRET_PATTERNS[i].re, text)
          THEN <<SECRET_PATTERNS[i].name>> ELSE <<>>) \o ScanFrom(text, i + 1)

\* Agent.secret_scan
secret_scan(content) == ScanFrom(Text(content), 1)

(***************************************************************************)
(* The state                                                               *)
(***************************************************************************)
VARIABLES
    pathState,     \* what is at self.local_path: "absent", "plain" (a directory that is no working copy), "repo"
    disk,          \* the files under local_path: path -> content or NoFile
    index,         \* the git index of the working copy
    head,          \* the commit HEAD points to: [tree, id]
    curBranch,     \* the checked-out branch: "main" is self.branch, "other" any other branch
    branchLocal,   \* self.branch resolves in the working copy (a local or remote-tracking ref)
    branchRemote,  \* origin has self.branch
    remote,        \* the tip origin serves (the tip of self.branch when origin has it): [tree, id]
    repoBound,     \* self._repo is not None
    lastWritten,   \* self._last_written_paths
    autoPush,      \* self.auto_push
    created,       \* number of commits created by repo.index.commit so far
    nOps,          \* number of calls made so far
    res,           \* the last call: its name, arguments and outcome
    start,         \* the state before the first call, where a behaviour records it
    api,           \* the module whose blueprint serves /api: "routes" or "app.routes"
    todos,         \* the rows of table todos
    response,      \* the last HTTP request to the Todo API and its response
    upload         \* the upload service: its files, clock, last request and response

vars == <<pathState, disk, index, head, curBranch, branchLocal, branchRemote, remote,
          repoBound, lastWritten, autoPush, created, nOps, res, start,
          api, todos, response, upload>>

\* The whole state as one value, with the trace of the call in progress:
\* net (a clone, fetch or push was run), pushTried, faulted (an operation of
\* the environment failed: the network, the disk, a git command), pushFailed
\* (the push did not update origin), the number of git checkout, fetch and
\* clone commands the call has run, and parents (the tree of HEAD at each
\* repo.index.commit of the call).
World == [pathState |-> pathState, disk |-> disk, index |-> index, head |-> head,
          curBranch |-> curBranch, branchLocal |-> branchLocal, branchRemote |-> branchRemote,
          remote |-> remote, repoBound |-> repoBound, lastWritten |-> lastWritten,
          autoPush |-> autoPush, created |-> created,
          net |-> FALSE, pushTried |-> FALSE, faulted |-> FALSE, pushFailed |-> FALSE,
          checkouts |-> 0, fetches |-> 0, clones |-> 0, parents |-> <<>>]

NoResult == [op |-> "init", kind |-> "ok", dry |-> FALSE, push |-> FALSE, edits |-> <<>>,
             commit |-> NoCommit, files |-> <<>>, diffs |-> <<>>, issues |-> <<>>,
             net |-> FALSE, pushTried |-> FALSE, faulted |-> FALSE, pushFailed |-> FALSE,
             checkouts |-> 0, fetches |-> 0, clones |-> 0, from |-> "absent",
             content |-> <<>>, scan |-> <<>>, failAt |-> 0,
             allow |-> TRUE, clean |-> TRUE, parents |-> <<>>]

(***************************************************************************)
(* The working copy, as GitPython and git report it                        *)
(***************************************************************************)
\* A tracked path differs between HEAD and the index, or between the index
\* and the working tree.
TrackedChange(w, p) ==
    \/ w.head.tree[p] # w.index[p]
    \/ w.index[p] # NoFile /\ w.disk[p] # w.index[p]

Untracked(w, p) == w.index[p] = NoFile /\ w.disk[p] # NoFile

\* repo.is_dirty(untracked_files=u)
is_dirty(w, u) ==
    \/ \E p \in Paths : TrackedChange(w, p)
    \/ u /\ \E p \in Paths : Untracked(w, p)

\* git status --porcelain shows an untracked directory holding no tracked
\* file as one entry, "?? dir/".
StatusName(w, p) ==
    IF DirOf(p) # "" /\ \A q \in Paths : DirOf(q) = DirOf(p) => w.index[q] = NoFile
    THEN DirOf(p) ELSE p

RECURSIVE StatusFrom(_, _, _)
StatusFrom(w, i, untracked) ==
    IF i > Len(PathOrder) THEN <<>>
    ELSE LET p == PathOrder[i] IN
         (IF untracked
          THEN (IF Untracked(w, p) THEN <<StatusName(w, p)>> ELSE <<>>)
          ELSE (IF TrackedChange(w, p) THEN <<p>> ELSE <<>>))
         \o StatusFrom(w, i + 1, untracked)

\* The paths of the status lines (line[3:]): tracked changes, then untracked.
StatusPaths(w) == StatusFrom(w, 1, FALSE) \o StatusFrom(w, 1, TRUE)

\* The tip of self.branch as the working copy knows it.
MainTip(w) == IF w.curBranch = "main" THEN w.head ELSE w.remote

\* git checkout refuses to overwrite local changes to a path that differs
\* between the two commits.
CheckoutOk(w) ==
    \/ w.curBranch = "main"
    \/ /\ w.branchLocal
       /\ \A p \in Paths : w.head.tree[p] # MainTip(w).tree[p]
                             => w.index[p] = w.head.tree[p] /\ w.disk[p] = w.head.tree[p]

\* self._repo.git.checkout(self.branch), when it succeeds.
checkout(w) ==
    IF w.curBranch = "main" THEN w
    ELSE LET t == MainTip(w) IN
         [w EXCEPT !.curBranch = "main",
                   !.head = t,
                   !.index = [p \in Paths |-> IF w.head.tree[p] # t.tree[p] THEN t.tree[p] ELSE w.index[p]],
                   !.disk = [p \in Paths |-> IF w.head.tree[p] # t.tree[p] THEN t.tree[p] ELSE w.disk[p]]]

(***************************************************************************)
(* ensure_repo                                                             *)
(***************************************************************************)
\* repo.git.checkout(branch) as ensure_repo and clone_repo run it: the state
\* it leaves, and whether it succeeded.
try_checkout(w) ==
    LET t == [w EXCEPT !.checkouts = @ + 1] IN
    IF CheckoutOk(t) THEN [w |-> checkout(t), ok |-> TRUE] ELSE [w |-> t, ok |-> FALSE]

\* clone_repo(repo_url, branch, local_path), the fallback of this file: ok is
\* FALSE when it returns None or raises.  An existing working copy is only
\* checked out; a directory that is none is removed first; then
\* Repo.clone_from and the checkout of the branch.
clone_repo(w, fault) ==
    IF w.pathState = "repo" THEN try_checkout(w)
    ELSE IF w.pathState = "plain" /\ fault = "rmtree"
    THEN [w |-> [w EXCEPT !.faulted = TRUE], ok |-> FALSE]
    ELSE LET n == [w EXCEPT !.pathState = "absent", !.disk = EmptyTree,
                            !.net = TRUE, !.clones = @ + 1] IN
         IF fault = "clone" THEN [w |-> [n EXCEPT !.faulted = TRUE], ok |-> FALSE]
         ELSE try_checkout([n EXCEPT !.pathState = "repo",
                                     !.disk = n.remote.tree,
                                     !.index = n.remote.tree,
                                     !.head = n.remote,
                                     !.curBranch = IF n.branchRemote THEN "main" ELSE "other",
                                     !.branchLocal = n.branchRemote])

\* open_repo swallowing the failure of the fetch and of the retried checkout.
open_repo_swallowing_failure(w, fault) ==
    LET first == try_checkout([w EXCEPT !.repoBound = TRUE]) IN
    IF first.ok THEN first
    ELSE LET n == [first.w EXCEPT !.net = TRUE, !.fetches = @ + 1] IN
         IF fault = "fetch" THEN [w |-> [n EXCEPT !.faulted = TRUE], ok |-> TRUE]
         ELSE [w |-> try_checkout([n EXCEPT !.branchLocal = n.branchLocal \/ n.branchRemote]).w,
               ok |-> TRUE]

\* The existing-working-copy branch of ensure_repo: bind the handle, check
\* out, and on failure fetch and check out once more.  ok is FALSE when the
\* inner handlers raise RuntimeError.
open_repo(w, fault) ==
    LET first == try_checkout([w EXCEPT !.repoBound = TRUE]) IN
    IF first.ok THEN first
    ELSE LET n == [first.w EXCEPT !.net = TRUE, !.fetches = @ + 1] IN
         IF fault = "fetch" THEN [w |-> [n EXCEPT !.faulted = TRUE], ok |-> FALSE]
         ELSE try_checkout([n EXCEPT !.branchLocal = n.branchLocal \/ n.branchRemote])

\* The clone half of ensure_repo: clone_repo, then bind the handle.
clone_and_bind(w, fault) ==
    LET c == clone_repo(w, fault) IN
    IF c.ok THEN [w |-> [c.w EXCEPT !.repoBound = TRUE], ok |-> TRUE] ELSE c

\* ensure_repo going on to clone into the directory it could not remove.
ensure_repo_ignoring_rmtree_failure(w, fault) ==
    IF w.pathState = "repo"
    THEN LET o == open_repo(w, fault) IN
         IF o.ok THEN o ELSE clone_and_bind(o.w, fault)
    ELSE IF w.pathState = "plain" /\ fault = "rmtree"
    THEN [w |-> [w EXCEPT !.faulted = TRUE, !.net = TRUE, !.clones = @ + 1], ok |-> FALSE]
    ELSE clone_and_bind([w EXCEPT !.pathState = "absent", !.disk = EmptyTree], fault)

\* Agent.ensure_repo: ok is FALSE when it raises RuntimeError.  The
\* RuntimeError of the failed fetch-and-retry is raised inside the outer try,
\* whose "except Exception" catches it and falls through to clone_repo.
ensure_repo(w, fault) ==
    IF w.pathState = "repo"
    THEN LET o == open_repo(w, fault) IN
         IF o.ok THEN o ELSE clone_and_bind(o.w, fault)
    ELSE IF w.pathState = "plain" /\ fault = "rmtree"
    THEN [w |-> [w EXCEPT !.faulted = TRUE], ok |-> FALSE]
    ELSE clone_and_bind([w EXCEPT !.pathState = "absent", !.disk = EmptyTree], fault)

(***************************************************************************)
(* preview_edits                                                           *)
(***************************************************************************)
\* self._repo.git.show('HEAD:<path>'), '' when git fails (not in HEAD, or
\* no working copy left at the path the handle was opened on).
HeadShow(w, name) ==
    IF w.pathState = "repo" /\ name \in Paths /\ w.head.tree[name] # NoFile
    THEN StripNewline(w.head.tree[name]) ELSE Empty

\* abs_path.exists(): a file, or a directory holding one.
DiskExists(w, name) ==
    \/ name \in Paths /\ w.disk[name] # NoFile
    \/ name \notin Paths /\ \E q \in Paths : DirOf(q) = name /\ w.disk[q] # NoFile

\* The old content preview_edits diffs against.
OldContent(w, name) ==
    LET fromHead == IF w.repoBound THEN HeadShow(w, name) ELSE Empty IN
    IF fromHead = Empty /\ DiskExists(w, name) THEN ReadOrEmpty(w.disk, name) ELSE fromHead

\* Agent.preview_edits: the state it leaves and the diff of every entry.
preview_edits(w, edits, fault) ==
    LET w1 == IF w.repoBound THEN w ELSE ensure_repo(w, fault).w IN
    [w |-> w1,
     diffs |-> [i \in 1..Len(edits) |->
                  [path |-> edits[i].path,
                   diff |-> unified_diff(OldContent(w1, edits[i].path), edits[i].content)]]]

(***************************************************************************)
(* commit_and_push                                                         *)
(***************************************************************************)
\* Agent._paths_changed_by_worktree: git status fails on fault "status" and
\* when no working copy is left at the path of the handle.
paths_changed_by_worktree(w, fault) ==
    IF ~w.repoBound \/ fault = "status" \/ w.pathState # "repo" THEN w.lastWritten
    ELSE StatusPaths(w)

\* Agent.ensure_clean_worktree, called with a bound repository.
ensure_clean_worktree(w, allow_untracked) ==
    IF ~w.repoBound THEN TRUE ELSE ~is_dirty(w, ~allow_untracked)

\* Agent.ensure_clean_worktree as a call of its own: it materializes the
\* workspace when the agent holds no handle, answers True when that fails,
\* and lets the error of repo.is_dirty through when no working copy is left
\* at the path of the handle.
clean_worktree(w, allow_untracked, fault) ==
    LET e == IF w.repoBound THEN [w |-> w, ok |-> TRUE] ELSE ensure_repo(w, fault) IN
    IF ~e.ok THEN [w |-> e.w, kind |-> "ok", clean |-> TRUE]
    ELSE IF e.w.pathState # "repo" THEN [w |-> e.w, kind |-> "GitCommandError", clean |-> TRUE]
    ELSE [w |-> e.w, kind |-> "ok", clean |-> ensure_clean_worktree(e.w, allow_untracked)]

\* secret_issues: the affected paths whose content, as read, matches a detector.
SecretIssues(w, affected) ==
    SelectSeq([i \in 1..Len(affected) |->
                  [path |-> affected[i], issues |-> secret_scan(ReadOrEmpty(w.disk, affected[i]))]],
              LAMBDA x : x.issues # <<>>)

\* Where the commit lands and what a successful push leaves on origin.
commit(w) ==
    [w EXCEPT !.created = @ + 1,
              !.parents = Append(@, w.head.tree),
              !.head = [tree |-> w.index, id |-> AgentCommit(w.created + 1)]]

\* origin.push(refspec='<branch>:<branch>') can succeed only when the local
\* branch exists.  GitPython's Remote.push raises when git push produced no
\* result line at all (no such local branch, origin unreachable: fault
\* "push"); when origin rejects the update (fault "reject") it returns the
\* result with its error flag set and raises nothing.
PushPossible(w) == w.curBranch = "main" \/ w.branchLocal

push_branch(w) ==
    IF w.curBranch = "main"
    THEN [w EXCEPT !.remote = w.head, !.branchRemote = TRUE, !.branchLocal = TRUE]
    ELSE w

Outcome(w, kind, commitId, files, diffs, issues) ==
    [w |-> w, kind |-> kind, commit |-> commitId, files |-> files, diffs |-> diffs, issues |-> issues]

\* commit_checked committing whatever the staging left, also an index equal
\* to HEAD.
commit_checked_without_empty_check(w, affected, push, fault) ==
    IF w.pathState # "repo"
    THEN Outcome(w, "GitCommandError", NoCommit, <<>>, <<>>, <<>>)
    ELSE IF ~ensure_clean_worktree(w, TRUE)
    THEN Outcome(w, "DirtyTreeError", NoCommit, <<>>, <<>>, <<>>)
    ELSE IF SecretIssues(w, affected) # <<>>
    THEN Outcome(w, "SecretDetectedError", NoCommit, <<>>, <<>>, SecretIssues(w, affected))
    ELSE IF fault = "add"
    THEN Outcome([w EXCEPT !.faulted = TRUE], "StageError", NoCommit, <<>>, <<>>, <<>>)
    ELSE LET a == [w EXCEPT !.index = w.disk] IN
         IF fault = "commit"
         THEN Outcome([a EXCEPT !.faulted = TRUE], "CommitError", NoCommit, <<>>, <<>>, <<>>)
         ELSE LET c == commit(a) IN
              IF ~push THEN Outcome(c, "ok", c.head.id, affected, <<>>, <<>>)
              ELSE LET t == [c EXCEPT !.net = TRUE, !.pushTried = TRUE] IN
                   IF fault = "push" \/ ~PushPossible(t)
                   THEN Outcome([t EXCEPT !.faulted = (fault = "push"), !.pushFailed = TRUE],
                                "PushError", NoCommit, <<>>, <<>>, <<>>)
                   ELSE IF fault = "reject"
                   THEN Outcome([t EXCEPT !.faulted = TRUE, !.pushFailed = TRUE],
                                "ok", c.head.id, affected, <<>>, <<>>)
                   ELSE Outcome(push_branch(t), "ok", c.head.id, affected, <<>>, <<>>)

\* The non-dry-run half of commit_and_push, from the safety checks on.
commit_checked(w, affected, push, fault) ==
    IF w.pathState # "repo"
    THEN Outcome(w, "GitCommandError", NoCommit, <<>>, <<>>, <<>>)
    ELSE IF ~ensure_clean_worktree(w, TRUE)
    THEN Outcome(w, "DirtyTreeError", NoCommit, <<>>, <<>>, <<>>)
    ELSE IF SecretIssues(w, affected) # <<>>
    THEN Outcome(w, "SecretDetectedError", NoCommit, <<>>, <<>>, SecretIssues(w, affected))
    ELSE IF fault = "add"
    THEN Outcome([w EXCEPT !.faulted = TRUE], "StageError", NoCommit, <<>>, <<>>, <<>>)
    ELSE LET a == [w EXCEPT !.index = w.disk] IN
         IF a.index = a.head.tree
         THEN Outcome(a, "ok", NoCommit, affected, <<>>, <<>>)
         ELSE IF fault = "commit"
         THEN Outcome([a EXCEPT !.faulted = TRUE], "CommitError", NoCommit, <<>>, <<>>, <<>>)
         ELSE LET c == commit(a) IN
              IF ~push THEN Outcome(c, "ok", c.head.id, affected, <<>>, <<>>)
              ELSE LET t == [c EXCEPT !.net = TRUE, !.pushTried = TRUE] IN
                   IF fault = "push" \/ ~PushPossible(t)
                   THEN Outcome([t EXCEPT !.faulted = (fault = "push"), !.pushFailed = TRUE],
                                "PushError", NoCommit, <<>>, <<>>, <<>>)
                   ELSE IF fault = "reject"
                   THEN Outcome([t EXCEPT !.faulted = TRUE, !.pushFailed = TRUE],
                                "ok", c.head.id, affected, <<>>, <<>>)
                   ELSE Outcome(push_branch(t), "ok", c.head.id, affected, <<>>, <<>>)

\* The dry-run half: the diffs of the affected paths' current content.
commit_dry_run(w, affected) ==
    LET pv == preview_edits(w, [i \in 1..Len(affected) |->
                                  [path |-> affected[i], content |-> ReadOrEmpty(w.disk, affected[i])]],
                            "none") IN
    Outcome(pv.w, "ok", NoCommit, affected, pv.diffs, <<>>)

\* commit_and_push committing although git status lists no change.
commit_and_push_committing_nothing(w, push, dry_run, fault) ==
    LET e == IF w.repoBound THEN [w |-> w, ok |-> TRUE] ELSE ensure_repo(w, fault) IN
    IF ~e.ok THEN Outcome(e.w, "SetupError", NoCommit, <<>>, <<>>, <<>>)
    ELSE LET affected == paths_changed_by_worktree(e.w, fault) IN
         LET s == [e.w EXCEPT !.faulted = @ \/ fault = "status"] IN
         IF affected = <<>> /\ ~dry_run THEN Outcome(commit(s), "ok", commit(s).head.id, <<>>, <<>>, <<>>)
         ELSE IF dry_run THEN commit_dry_run(s, affected)
         ELSE commit_checked(s, affected, push, fault)

\* commit_and_push with the dry_run flag ignored.
commit_and_push_ignoring_dry_run(w, push, dry_run, fault) ==
    LET e == IF w.repoBound THEN [w |-> w, ok |-> TRUE] ELSE ensure_repo(w, fault) IN
    IF ~e.ok THEN Outcome(e.w, "SetupError", NoCommit, <<>>, <<>>, <<>>)
    ELSE LET affected == paths_changed_by_worktree(e.w, fault) IN
         LET s == [e.w EXCEPT !.faulted = @ \/ fault = "status"] IN
         IF affected = <<>> THEN Outcome(s, "ok", NoCommit, <<>>, <<>>, <<>>)
         ELSE commit_checked(s, affected, push, fault)

\* Agent.commit_and_push
commit_and_push(w, push, dry_run, fault) ==
    LET e == IF w.repoBound THEN [w |-> w, ok |-> TRUE] ELSE ensure_repo(w, fault) IN
    IF ~e.ok THEN Outcome(e.w, "SetupError", NoCommit, <<>>, <<>>, <<>>)
    ELSE LET affected == paths_changed_by_worktree(e.w, fault) IN
         LET s == [e.w EXCEPT !.faulted = @ \/ fault = "status"] IN
         IF affected = <<>> /\ ~dry_run THEN Outcome(s, "ok", NoCommit, <<>>, <<>>, <<>>)
         ELSE IF dry_run THEN commit_dry_run(s, affected)
         ELSE commit_checked(s, affected, push, fault)

(***************************************************************************)
(* apply_edits                                                             *)
(***************************************************************************)
\* p.parent.mkdir(parents=True, exist_ok=True) creates local_path itself
\* when nothing is there.
mkdir_parents(w) == [w EXCEPT !.pathState = IF @ = "absent" THEN "plain" ELSE @]

\* The write loop over entries i .. stop-1.
RECURSIVE WriteFrom(_, _, _, _)
WriteFrom(w, edits, i, stop) ==
    IF i > Len(edits) \/ i = stop THEN w
    ELSE WriteFrom([mkdir_parents(w) EXCEPT !.disk[edits[i].path] = edits[i].content],
                   edits, i + 1, stop)

EditPaths(edits) == [i \in 1..Len(edits) |-> edits[i].path]

\* self._repo.index.add(written_paths): fails on a path that is not there,
\* and when no working copy is left at the path of the handle.
index_add(w, paths, fault) ==
    IF fault = "stage" THEN [w EXCEPT !.faulted = TRUE]
    ELSE IF w.pathState # "repo" THEN w
    ELSE IF \E i \in 1..Len(paths) : w.disk[paths[i]] = NoFile THEN w
    ELSE [w EXCEPT !.index = [p \in Paths |-> IF p \in Range(paths) THEN w.disk[p] ELSE w.index[p]]]

\* apply_edits going on to commit and push when auto_push is set.
apply_edits_stage_auto_push(w, fault) ==
    LET e == IF w.repoBound THEN [w |-> w, ok |-> TRUE] ELSE ensure_repo(w, fault) IN
    LET s == IF ~e.ok THEN e.w
             ELSE IF e.w.repoBound THEN index_add(e.w, e.w.lastWritten, fault)
             ELSE e.w IN
    IF w.autoPush THEN commit_and_push(s, TRUE, FALSE, fault).w ELSE s

\* The staging half of apply_edits (after the files are written).
apply_edits_stage(w, fault) ==
    LET e == IF w.repoBound THEN [w |-> w, ok |-> TRUE] ELSE ensure_repo(w, fault) IN
    IF ~e.ok THEN e.w
    ELSE IF e.w.repoBound THEN index_add(e.w, e.w.lastWritten, fault)
    ELSE e.w

\* apply_edits appending to the record of the earlier calls.
apply_edits_accumulating_record(w, edits, failAt, failKind, fault) ==
    IF failAt > 0
    THEN LET before == WriteFrom(w, edits, 1, failAt) IN
         [w |-> [(IF failKind = "write" THEN mkdir_parents(before) ELSE before) EXCEPT !.faulted = TRUE],
          kind |-> IF failKind = "write" THEN "IOFailure" ELSE "OSError",
          files |-> <<>>]
    ELSE LET written == [WriteFrom(w, edits, 1, 0) EXCEPT !.lastWritten = @ \o EditPaths(edits)] IN
         [w |-> apply_edits_stage(written, fault), kind |-> "ok", files |-> EditPaths(edits)]

\* Agent.apply_edits.  failAt is the entry at which the filesystem fails (0:
\* none), failKind whether mkdir or write_text fails there.
apply_edits(w, edits, failAt, failKind, fault) ==
    IF failAt > 0
    THEN LET before == WriteFrom(w, edits, 1, failAt) IN
         [w |-> [(IF failKind = "write" THEN mkdir_parents(before) ELSE before) EXCEPT !.faulted = TRUE],
          kind |-> IF failKind = "write" THEN "IOFailure" ELSE "OSError",
          files |-> <<>>]
    ELSE LET written == [WriteFrom(w, edits, 1, 0) EXCEPT !.lastWritten = EditPaths(edits)] IN
         [w |-> apply_edits_stage(written, fault), kind |-> "ok", files |-> EditPaths(edits)]

\* apply_and_push calling commit_and_push without push=True.
apply_and_push_without_push(w, edits, dry_run, failAt, failKind, fault) ==
    LET a == apply_edits(w, edits, failAt, failKind, fault) IN
    IF a.kind # "ok" THEN Outcome(a.w, a.kind, NoCommit, <<>>, <<>>, <<>>)
    ELSE commit_and_push(a.w, FALSE, dry_run, fault)

\* Agent.apply_and_push
apply_and_push(w, edits, dry_run, failAt, failKind, fault) ==
    LET a == apply_edits(w, edits, failAt, failKind, fault) IN
    IF a.kind # "ok" THEN Outcome(a.w, a.kind, NoCommit, <<>>, <<>>, <<>>)
    ELSE commit_and_push(a.w, TRUE, dry_run, fault)

(***************************************************************************)
(* The command line                                                        *)
(***************************************************************************)
\* The script with --auto-push having no effect on what it calls.
main_ignoring_auto_push(w, edits, push, dry_run, failAt, failKind, fault) ==
    LET e == ensure_repo(w, fault) IN
    IF ~e.ok THEN Outcome(e.w, "SetupError", NoCommit, <<>>, <<>>, <<>>)
    ELSE IF edits = <<>> THEN commit_and_push(e.w, push, dry_run, fault)
    ELSE IF push THEN apply_and_push(e.w, edits, dry_run, failAt, failKind, fault)
    ELSE LET a == apply_edits(e.w, edits, failAt, failKind, fault) IN
         IF a.kind # "ok" THEN Outcome(a.w, a.kind, NoCommit, <<>>, <<>>, <<>>)
         ELSE IF dry_run THEN commit_and_push(a.w, FALSE, TRUE, fault)
         ELSE Outcome(a.w, "ok", NoCommit, <<>>, <<>>, <<>>)

\* The script run as a program, from the construction of the agent on: the
\* outcome of the call that produced its result, SetupError when
\* ensure_repo failed (exit status 1).
main(w, edits, push, dry_run, failAt, failKind, fault) ==
    LET e == ensure_repo(w, fault) IN
    IF ~e.ok THEN Outcome(e.w, "SetupError", NoCommit, <<>>, <<>>, <<>>)
    ELSE IF edits = <<>> THEN commit_and_push(e.w, push, dry_run, fault)
    ELSE IF e.w.autoPush \/ push THEN apply_and_push(e.w, edits, dry_run, failAt, failKind, fault)
    ELSE LET a == apply_edits(e.w, edits, failAt, failKind, fault) IN
         IF a.kind # "ok" THEN Outcome(a.w, a.kind, NoCommit, <<>>, <<>>, <<>>)
         ELSE IF dry_run THEN commit_and_push(a.w, FALSE, TRUE, fault)
         ELSE Outcome(a.w, "ok", NoCommit, <<>>, <<>>, <<>>)

(***************************************************************************)
(* The Todo API: JSON bodies and TodoSchema                                *)
(***************************************************************************)
\* JSON values of a request body, each tagged with its JSON type.
Str(s) == <<"str", s>>
Null == <<"null", "">>
Number(s) == <<"int", s>>
Bool(b) == <<"bool", IF b THEN "true" ELSE "false">>

\* A request body: a JSON object with its members, a non-empty JSON array,
\* or JSON null.
Object(members) == [kind |-> "object", fields |-> members]
Array == [kind |-> "array", fields |-> <<>>]
NullBody == [kind |-> "null", fields |-> <<>>]

Has(body, k) == k \in DOMAIN body.fields

\* Python's "not json_data": None and the empty object are falsy.
Falsy(body) == body.kind = "null" \/ (body.kind = "object" /\ DOMAIN body.fields = {})

\* marshmallow fields.Boolean: the strings it reads as true and as false.
Truthy == {"t", "T", "true", "True", "TRUE", "on", "On", "ON", "y", "Y", "yes", "Yes", "YES", "1"}
Falsey == {"f", "F", "false", "False", "FALSE", "off", "Off", "OFF", "n", "N", "no", "No", "NO", "0"}

ValidBool(v) == v[1] = "bool" \/ (v[1] = "str" /\ v[2] \in Truthy \cup Falsey)
BoolOf(v) == IF v[1] = "bool" THEN v[2] = "true" ELSE v[2] \in Truthy

\* title = fields.Str(required=True)
TitleErrors(body, partial) ==
    IF ~Has(body, "title")
    THEN IF partial THEN {} ELSE {<<"title", "Missing data for required field.">>}
    ELSE IF body.fields["title"] = Null THEN {<<"title", "Field may not be null.">>}
    ELSE IF body.fields["title"][1] # "str" THEN {<<"title", "Not a valid string.">>}
    ELSE {}

\* description = fields.Str(required=False, allow_none=True)
DescriptionErrors(body) ==
    IF Has(body, "description") /\ body.fields["description"] # Null
       /\ body.fields["description"][1] # "str"
    THEN {<<"description", "Not a valid string.">>}
    ELSE {}

\* completed = fields.Bool(required=False, load_default=False)
CompletedErrors(body) ==
    IF ~Has(body, "completed") THEN {}
    ELSE IF body.fields["completed"] = Null THEN {<<"completed", "Field may not be null.">>}
    ELSE IF ~ValidBool(body.fields["completed"]) THEN {<<"completed", "Not a valid boolean.">>}
    ELSE {}

\* The fields TodoSchema loads; id, created_at and updated_at are dump_only
\* and every other member is unknown: Meta.unknown = 'exclude' drops them.
LoadFields == {"title", "description", "completed"}

\* todo_schema.load(json_data, partial=...): the error messages by field, and
\* the validated data when there are none.  A partial load skips every
\* missing field, its load_default included.
load(body, partial) ==
    IF body.kind # "object"
    THEN [errors |-> {<<"_schema", "Invalid input type.">>}, data |-> <<>>]
    ELSE LET errors == TitleErrors(body, partial) \cup DescriptionErrors(body)
                       \cup CompletedErrors(body)
             keys == (LoadFields \cap DOMAIN body.fields)
                     \cup (IF partial THEN {} ELSE {"completed"})
         IN  [errors |-> errors,
              data |-> IF errors # {} THEN <<>>
                       ELSE [k \in keys |->
                               IF k = "completed"
                               THEN IF Has(body, k) THEN Bool(BoolOf(body.fields[k]))
                                    ELSE Bool(FALSE)
                               ELSE body.fields[k]]]

(***************************************************************************)
(* The Todo API: table todos                                               *)
(***************************************************************************)
\* No row: what a response without a todo carries.
NoTodo == [id |-> 0, title |-> "", description |-> Null, completed |-> FALSE]

\* Todo.query.get(id): the rows with that primary key, none or one.
Find(rows, id) == {r \in rows : r.id = id}

\* The primary key SQLite gives the next row: one more than the largest.
NextId(rows) ==
    IF rows = {} THEN 1 ELSE (CHOOSE n \in {r.id : r \in rows} : \A r \in rows : r.id <= n) + 1

\* Todo(title=validated_data['title'],
\*      description=validated_data.get('description'),
\*      completed=validated_data.get('completed', False))
NewTodo(rows, data) ==
    [id |-> NextId(rows),
     title |-> data["title"][2],
     description |-> IF "description" \in DOMAIN data THEN data["description"] ELSE Null,
     completed |-> IF "completed" \in DOMAIN data THEN data["completed"][2] = "true" ELSE FALSE]

\* The row after its attributes are set from the validated data.
Updated(row, data) ==
    [id |-> row.id,
     title |-> IF "title" \in DOMAIN data THEN data["title"][2] ELSE row.title,
     description |-> IF "description" \in DOMAIN data THEN data["description"]
                     ELSE row.description,
     completed |-> IF "completed" \in DOMAIN data THEN data["completed"][2] = "true"
                   ELSE row.completed]

\* db.session.commit() succeeds when column title (unique=True) stays unique.
CommitOk(rows) == \A r1 \in rows, r2 \in rows : r1.title = r2.title => r1 = r2

(***************************************************************************)
(* The Todo API: the views                                                 *)
(***************************************************************************)
\* A view returns a response, or raises an exception with the session's
\* changes not committed.
Responds(rows, status, errors, todo, listed) ==
    [raised |-> "none", todos |-> rows, status |-> status, errors |-> errors,
     todo |-> todo, listed |-> listed]

Raises(rows, exception, errors) ==
    [raised |-> exception, todos |-> rows, status |-> 0, errors |-> errors,
     todo |-> NoTodo, listed |-> {}]

\* src/routes.py -----------------------------------------------------------
\* The views as written, before the decorator is applied.
get_todos(rows) == Responds(rows, 200, {}, NoTodo, rows)

get_todo(rows, id) ==
    IF Find(rows, id) = {} THEN Raises(rows, "NotFound", {})
    ELSE Responds(rows, 200, {}, CHOOSE r \in Find(rows, id) : TRUE, {})

add_todo(rows, body) ==
    IF Falsy(body) THEN Responds(rows, 400, {}, NoTodo, {})
    ELSE LET validated == load(body, FALSE) IN
         IF validated.errors # {} THEN Raises(rows, "ValidationError", validated.errors)
         ELSE LET new_todo == NewTodo(rows, validated.data) IN
              IF ~CommitOk(rows \cup {new_todo}) THEN Raises(rows, "IntegrityError", {})
              ELSE Responds(rows \cup {new_todo}, 201, {}, new_todo, {})

update_todo(rows, id, body) ==
    IF Find(rows, id) = {} THEN Raises(rows, "NotFound", {})
    ELSE IF Falsy(body) THEN Responds(rows, 400, {}, NoTodo, {})
    ELSE LET todo == CHOOSE r \in Find(rows, id) : TRUE
             validated == load(body, TRUE)
         IN  IF validated.errors # {} THEN Raises(rows, "ValidationError", validated.errors)
             ELSE LET after == (rows \ {todo}) \cup {Updated(todo, validated.data)} IN
                  IF ~CommitOk(after) THEN Raises(rows, "IntegrityError", {})
                  ELSE Responds(after, 200, {}, Updated(todo, validated.data), {})

delete_todo(rows, id) ==
    IF Find(rows, id) = {} THEN Raises(rows, "NotFound", {})
    ELSE Responds(rows \ Find(rows, id), 204, {}, NoTodo, {})

\* @handle_unexpected_errors: "except Exception" around the view turns
\* whatever it raises into a 500 response.
handle_unexpected_errors(result) ==
    IF result.raised = "none" THEN result
    ELSE Responds(result.todos, 500, {}, NoTodo, {})

\* @bp.errorhandler(ValidationError)
handle_validation_error(result) == Responds(result.todos, 400, result.errors, NoTodo, {})

\* @bp.errorhandler(SQLAlchemyError)
handle_sqlalchemy_error(result) == Responds(result.todos, 500, {}, NoTodo, {})

\* What the blueprint answers for the result of a decorated view: an
\* exception that leaves the view goes to the blueprint's handler of its
\* class, and a NotFound without one becomes the 404 response it carries.
Answer(result) ==
    IF result.raised = "ValidationError" THEN handle_validation_error(result)
    ELSE IF result.raised = "IntegrityError" THEN handle_sqlalchemy_error(result)
    ELSE IF result.raised = "NotFound" THEN Responds(result.todos, 404, {}, NoTodo, {})
    ELSE result

\* src/app/routes.py -------------------------------------------------------
\* Each view handles its own exceptions.
app_get_todos(rows) == Responds(rows, 200, {}, NoTodo, rows)

app_get_todo(rows, id) ==
    IF Find(rows, id) = {} THEN Responds(rows, 404, {}, NoTodo, {})
    ELSE Responds(rows, 200, {}, CHOOSE r \in Find(rows, id) : TRUE, {})

app_add_todo(rows, body) ==
    IF Falsy(body) THEN Responds(rows, 400, {}, NoTodo, {})
    ELSE LET validated_data == load(body, FALSE) IN
         IF validated_data.errors # {} THEN Responds(rows, 400, validated_data.errors, NoTodo, {})
         ELSE LET new_todo == NewTodo(rows, validated_data.data) IN
              IF ~CommitOk(rows \cup {new_todo}) THEN Responds(rows, 500, {}, NoTodo, {})
              ELSE Responds(rows \cup {new_todo}, 201, {}, new_todo, {})

app_update_todo(rows, id, body) ==
    IF Find(rows, id) = {} THEN Responds(rows, 404, {}, NoTodo, {})
    ELSE IF Falsy(body) THEN Responds(rows, 400, {}, NoTodo, {})
    ELSE LET todo == CHOOSE r \in Find(rows, id) : TRUE
             validated_data == load(body, TRUE)
         IN  IF validated_data.errors # {}
             THEN Responds(rows, 400, validated_data.errors, NoTodo, {})
             ELSE LET after == (rows \ {todo}) \cup {Updated(todo, validated_data.data)} IN
                  IF ~CommitOk(after) THEN Responds(rows, 500, {}, NoTodo, {})
                  ELSE Responds(after, 200, {}, Updated(todo, validated_data.data), {})

app_delete_todo(rows, id) ==
    IF Find(rows, id) = {} THEN Responds(rows, 404, {}, NoTodo, {})
    ELSE Responds(rows \ Find(rows, id), 204, {}, NoTodo, {})

\* No request has been made: the blueprint is mounted over an empty table.
NoBody == Object(<<>>)
NoResponse ==
    [method |-> "none", id |-> 0, body |-> NoBody, status |-> 0, errors |-> {},
     todo |-> NoTodo, listed |-> {}]

NoTodoRequest == api = "app.routes" /\ todos = {} /\ response = NoResponse

(***************************************************************************)
(* The upload service: exceptions, file names, the steps of a request      *)
(***************************************************************************)
\* The base class of each exception class a request can raise.  IOError is
\* OSError.
BaseClass ==
    [JSONDecodeError |-> "ValueError", UnicodeDecodeError |-> "ValueError",
     ValueError |-> "Exception", FileNotFoundError |-> "OSError", OSError |-> "Exception",
     IndexError |-> "Exception", CalledProcessError |-> "Exception"]

\* isinstance(e, cls) for an exception of class e.
RECURSIVE IsInstance(_, _)
IsInstance(e, cls) ==
    \/ e = cls
    \/ e \in DOMAIN BaseClass /\ IsInstance(BaseClass[e], cls)

\* Config.ALLOWED_EXTENSIONS
ALLOWED_EXTENSIONS ==
    {<<"m", "p", "4">>, <<"a", "v", "i">>, <<"m", "o", "v">>, <<"m", "k", "v">>}

\* A file name: whether it holds a dot, and what follows its last dot.
FileName(name, dot, ext) == [name |-> name, dot |-> dot, ext |-> ext]

\* allowed_file(filename, allowed_extensions)
allowed_file(filename) ==
    filename.dot /\ [i \in 1..Len(filename.ext) |-> ToLower(filename.ext[i])] \in ALLOWED_EXTENSIONS

\* The outcome of a step: the exception class it raises ("none": it
\* returns) and the files it leaves.  A file is <<folder, name>>, folder 0
\* being UPLOAD_FOLDER itself and folder t the timestamp folder of second t.
Step(raised, files) == [raised |-> raised, files |-> files]

\* save_and_organize_file at second t.  The names used are ones
\* secure_filename leaves as they are.
save_and_organize_file(files, filename, t, fault) ==
    IF filename.name = "" THEN Step("ValueError", files)
    ELSE IF ~allowed_file(filename)
    THEN Step(IF filename.dot THEN "ValueError" ELSE "IndexError", files)
    ELSE IF fault = "save" THEN Step("OSError", files)
    ELSE IF fault \in {"makedirs", "rename"} THEN Step("OSError", files \ {<<0, filename.name>>})
    ELSE Step("none", (files \ {<<0, filename.name>>}) \cup {<<t, filename.name>>})

\* run_processing_script
run_processing_script(fault) ==
    IF fault = "python_missing" THEN "FileNotFoundError"
    ELSE IF fault = "script_fails" THEN "CalledProcessError"
    ELSE "none"

\* load_output_json: FileNotFoundError and JSONDecodeError are raised again
\* as they are, everything else as IOError.
load_output_json(fault) ==
    IF fault = "output_missing" THEN "FileNotFoundError"
    ELSE IF fault = "output_malformed" THEN "JSONDecodeError"
    ELSE IF fault = "output_not_utf8" THEN "OSError"
    ELSE "none"

\* The except clauses of upload_file, in the order they are written.
UploadHandlers ==
    <<[class |-> "ValueError", status |-> 400, error |-> "client"],
      [class |-> "OSError", status |-> 500, error |-> "filesystem"],
      [class |-> "FileNotFoundError", status |-> 500, error |-> "not found"],
      [class |-> "CalledProcessError", status |-> 500, error |-> "processing failed"],
      [class |-> "JSONDecodeError", status |-> 500, error |-> "output malformed"],
      [class |-> "Exception", status |-> 500, error |-> "unexpected"]>>

\* The clause that handles an exception: the first whose class it is an
\* instance of.
Handler(e) ==
    UploadHandlers[CHOOSE i \in 1..Len(UploadHandlers) :
                      /\ IsInstance(e, UploadHandlers[i].class)
                      /\ \A j \in 1..(i - 1) : ~IsInstance(e, UploadHandlers[j].class)]

\* upload_file: POST /upload at second t.
upload_file(files, hasFile, filename, t, fault) ==
    IF ~hasFile THEN [files |-> files, status |-> 400, error |-> "no file part", raised |-> "none"]
    ELSE LET saved == save_and_organize_file(files, filename, t, fault)
             raised == IF saved.raised # "none" THEN saved.raised
                       ELSE IF run_processing_script(fault) # "none"
                       THEN run_processing_script(fault)
                       ELSE load_output_json(fault)
         IN  IF raised = "none"
             THEN [files |-> saved.files, status |-> 200, error |-> "", raised |-> "none"]
             ELSE [files |-> saved.files, status |-> Handler(raised).status,
                   error |-> Handler(raised).error, raised |-> raised]

\* The upload service before its first request.
NoUpload ==
    [files |-> {}, now |-> 0, hasFile |-> FALSE, filename |-> FileName("", FALSE, <<>>),
     fault |-> "none", status |-> 0, error |-> "", raised |-> "none"]

\* Neither web service takes part.
NoRequest == NoTodoRequest /\ upload = NoUpload

(***************************************************************************)
(* Initial states and actions                                              *)
(***************************************************************************)
\* Agent.__init__: no handle, no change record.  What is at local_path, the
\* working copy there and the remote are whatever the caller's machine holds.
InitAgent ==
    /\ autoPush \in BOOLEAN
    /\ repoBound = FALSE
    /\ lastWritten = <<>>
    /\ created = 0
    /\ nOps = 0
    /\ res = NoResult
    /\ branchRemote \in BOOLEAN
    /\ branchLocal \in BOOLEAN
    /\ pathState \in {"absent", "plain", "repo"}
    /\ curBranch \in {"main", "other"}
    /\ remote \in {[tree |-> t, id |-> BaseCommit] : t \in {EmptyTree, TreeNL}}
    /\ head \in {remote, [tree |-> TreeNoNL, id |-> OtherCommit], [tree |-> EmptyTree, id |-> NoCommit]}
    /\ index = head.tree
    /\ disk \in InitDisks(head.tree)
    /\ \/ /\ pathState = "repo" /\ curBranch = "main"
          /\ branchLocal /\ branchRemote /\ head = remote
       \/ /\ pathState = "repo" /\ curBranch = "other"
          /\ branchLocal => branchRemote
          /\ head.id = OtherCommit /\ remote.tree = TreeNL
          /\ disk["conf/key.pem"] = NoFile /\ disk["README.md"] # NoFile
       \/ /\ pathState \in {"absent", "plain"} /\ curBranch = "other"
          /\ ~branchLocal /\ head.id = NoCommit /\ remote.tree = TreeNL
          /\ disk["conf/key.pem"] = NoFile
          /\ pathState = "absent" => disk = EmptyTree

\* No record of the first state is kept.
Unrecorded == [pathState |-> "unrecorded"]

Init == InitAgent /\ start = Unrecorded /\ NoRequest

\* The same initial states, each recorded in start.
InitRecorded == InitAgent /\ start = World /\ NoRequest

Install(w, r) ==
    /\ nOps < MaxOps
    /\ nOps' = nOps + 1
    /\ pathState' = w.pathState
    /\ disk' = w.disk
    /\ index' = w.index
    /\ head' = w.head
    /\ curBranch' = w.curBranch
    /\ branchLocal' = w.branchLocal
    /\ branchRemote' = w.branchRemote
    /\ remote' = w.remote
    /\ repoBound' = w.repoBound
    /\ lastWritten' = w.lastWritten
    /\ autoPush' = w.autoPush
    /\ created' = w.created
    /\ start' = start
    /\ UNCHANGED <<api, todos, response, upload>>
    /\ res' = [r EXCEPT !.net = w.net, !.pushTried = w.pushTried, !.faulted = w.faulted,
                        !.pushFailed = w.pushFailed,
                        !.checkouts = w.checkouts, !.fetches = w.fetches, !.clones = w.clones,
                        !.from = pathState, !.parents = w.parents]

\* The failures of the environment a call of ensure_repo can meet in the
\* current state.
SetupFaults ==
    {"none"} \cup
    (IF repoBound THEN {}
     ELSE IF pathState = "repo" THEN (IF CheckoutOk(World) THEN {} ELSE {"fetch"})
     ELSE IF pathState = "plain" THEN {"rmtree", "clone"}
     ELSE {"clone"})

EnsureRepo ==
    \E fault \in SetupFaults :
        LET e == ensure_repo(World, fault) IN
        Install(e.w, [NoResult EXCEPT !.op = "ensure_repo",
                                      !.kind = IF e.ok THEN "ok" ELSE "SetupError"])

PreviewEdits ==
    \E edits \in EditSets, fault \in SetupFaults :
        LET pv == preview_edits(World, edits, fault) IN
        Install(pv.w, [NoResult EXCEPT !.op = "preview_edits", !.edits = edits, !.diffs = pv.diffs])

\* The filesystem failures entry failAt of the edits can meet in state w:
\* write_text can always fail; mkdir(parents=True, exist_ok=True) can fail
\* only where a directory is missing.
CanFail(w, edits, failAt, failKind) ==
    /\ failAt = 0 => failKind = "write"
    /\ (failAt > 0 /\ failKind = "mkdir") =>
           LET before == WriteFrom(w, edits, 1, failAt)
               p == edits[failAt].path
           IN  \/ before.pathState = "absent"
               \/ DirOf(p) # "" /\ \A q \in Paths : DirOf(q) = DirOf(p) => before.disk[q] = NoFile

ApplyEdits ==
    \E edits \in EditSets, fault \in SetupFaults \cup {"stage"} :
    \E failAt \in 0..Len(edits), failKind \in {"write", "mkdir"} :
        /\ CanFail(World, edits, failAt, failKind)
        /\ failAt > 0 => fault = "none"
        /\ LET a == apply_edits(World, edits, failAt, failKind, fault) IN
           Install(a.w, [NoResult EXCEPT !.op = "apply_edits", !.kind = a.kind,
                                         !.edits = edits, !.files = a.files,
                                         !.failAt = failAt])

CommitResult(op, o, push, dry_run, edits) ==
    [NoResult EXCEPT !.op = op, !.kind = o.kind, !.dry = dry_run, !.push = push, !.edits = edits,
                     !.commit = o.commit, !.files = o.files, !.diffs = o.diffs, !.issues = o.issues]

\* The state a call leaves and its result become the current ones.
InstallOutcome(op, o, push, dry_run, edits) ==
    Install(o.w, CommitResult(op, o, push, dry_run, edits))

CommitFaults == SetupFaults \cup {"status", "add", "commit", "push", "reject"}

CommitAndPush ==
    \E push \in BOOLEAN, dry_run \in BOOLEAN, fault \in CommitFaults :
        /\ push \/ fault \notin {"push", "reject"}
        /\ InstallOutcome("commit_and_push", commit_and_push(World, push, dry_run, fault),
                          push, dry_run, <<>>)

ApplyAndPush ==
    \E edits \in EditSets, dry_run \in BOOLEAN, fault \in CommitFaults \cup {"stage"} :
    \E failAt \in 0..Len(edits), failKind \in {"write", "mkdir"} :
        /\ CanFail(World, edits, failAt, failKind)
        /\ failAt > 0 => fault = "none"
        /\ InstallOutcome("apply_and_push",
                          apply_and_push(World, edits, dry_run, failAt, failKind, fault),
                          TRUE, dry_run, edits)

InstallClean(c, allow_untracked) ==
    Install(c.w, [NoResult EXCEPT !.op = "ensure_clean_worktree", !.kind = c.kind,
                                  !.allow = allow_untracked, !.clean = c.clean])

EnsureCleanWorktree ==
    \E allow_untracked \in BOOLEAN, fault \in SetupFaults :
        InstallClean(clean_worktree(World, allow_untracked, fault), allow_untracked)

Next ==
    \/ EnsureRepo \/ PreviewEdits \/ ApplyEdits \/ CommitAndPush \/ ApplyAndPush
    \/ EnsureCleanWorktree

Spec == Init /\ [][Next]_vars

\* Somebody else removes the working copy the agent has materialized (it
\* holds the handle, the branch is checked out): the whole directory, or its
\* .git directory alone.
Damage ==
    /\ repoBound /\ pathState = "repo" /\ curBranch = "main" /\ nOps < MaxOps
    /\ \E left \in {"absent", "plain"} :
          /\ pathState' = left
          /\ disk' = IF left = "absent" THEN EmptyTree ELSE disk
    /\ index' = EmptyTree
    /\ head' = [tree |-> EmptyTree, id |-> NoCommit]
    /\ curBranch' = "other"
    /\ branchLocal' = FALSE
    /\ res' = [NoResult EXCEPT !.op = "damage"]
    /\ UNCHANGED <<branchRemote, remote, repoBound, lastWritten, autoPush, created, nOps,
                   start, api, todos, response, upload>>

\* The program with that interference.
SpecDamaged == Init /\ [][Next \/ Damage]_vars

\* The same program, in behaviours that remember the state they began in.
SpecRecorded == InitRecorded /\ [][Next]_vars

(***************************************************************************)
(* preview_edits on a working copy of its own                              *)
(***************************************************************************)
\* A commit whose README.md is an empty file.
TreeEmptyFile == [p \in Paths |-> IF p = "README.md" THEN Empty ELSE NoFile]

\* A freshly constructed agent over a working copy checked out on the
\* requested branch, whose README.md is missing, empty or "h" at HEAD and
\* missing, empty, "h" or "hh" in the working tree.
InitPreview ==
    /\ autoPush \in BOOLEAN
    /\ repoBound = FALSE
    /\ lastWritten = <<>>
    /\ created = 0
    /\ nOps = 0
    /\ res = NoResult
    /\ branchRemote = TRUE
    /\ branchLocal = TRUE
    /\ pathState = "repo"
    /\ curBranch = "main"
    /\ remote \in {[tree |-> t, id |-> BaseCommit] : t \in {EmptyTree, TreeEmptyFile, TreeNoNL}}
    /\ head = remote
    /\ index = head.tree
    /\ disk \in {[head.tree EXCEPT !["README.md"] = c] : c \in {NoFile, Empty, Hello, <<"h", "h">>}}
    /\ start = Unrecorded
    /\ NoRequest

SpecPreview == InitPreview /\ [][PreviewEdits]_vars

(***************************************************************************)
(* The script, and apply_edits called on its own                           *)
(***************************************************************************)
\* python agent.py REPO [--edit PATH FILE]... [--push] [--dry-run]
\* [--auto-push]: the agent is the one the script constructs.
Main ==
    \E edits \in EditSets \cup {<<>>}, push \in BOOLEAN, dry_run \in BOOLEAN,
       fault \in CommitFaults \cup {"stage"} :
    \E failAt \in 0..Len(edits), failKind \in {"write", "mkdir"} :
        /\ nOps = 0
        /\ CanFail(ensure_repo(World, fault).w, edits, failAt, failKind)
        /\ failAt > 0 => fault = "none"
        /\ InstallOutcome("main", main(World, edits, push, dry_run, failAt, failKind, fault),
                          push, dry_run, edits)

SpecMain == Init /\ [][Main \/ ApplyEdits]_vars

(***************************************************************************)
(* secret_scan called on its own                                           *)
(***************************************************************************)
\* Bound of the model: the number of atoms of a scanned content.
MaxScanLen == 2

ScanAtoms ==
    {"h", "NL", "AKIA", "AKIA15", "AWSSECRET", "PEM", "RSAPEM", "JWT", "ALNUM32", "ALNUM31",
     "AWSKEY=", "AWSKEY_SP", "AWS", "GAP20", "SECRETS:", "B40", "B39", "eyJ", "."}

\* Longer contents around the limits of the patterns.
LongScanContents ==
    {<<"AWS", "GAP20", "SECRETS:", "B40">>,
     <<"AWSKEY=", "B40", "PEM">>,
     <<"ALNUM31", "NL", "ALNUM31">>,
     <<"AWS", "GAP20", ".", "SECRETS:", "B40">>,
     <<"AWS", "NL", "SECRETS:", "B40">>,
     <<"AWSKEY=", "B39", "NL", "B40">>,
     <<"AWSKEY=", "ALNUM31", "h", "PEM">>,
     <<"eyJ", "h", ".", "h", ".", "h">>,
     <<"eyJ", ".", "h", ".", "h">>,
     <<"eyJ", "h", ".", "h", "NL", ".", "h">>,
     <<"RSAPEM", "NL", "JWT", "NL", "AKIA">>}

ScanContents ==
    UNION {[1..n -> ScanAtoms] : n \in 0..MaxScanLen} \cup LongScanContents

\* A freshly constructed agent with nothing at its local path.
InitScan == Init /\ pathState = "absent" /\ ~autoPush /\ branchRemote

\* agent.secret_scan(content), as the first call on the agent: the call
\* reads and writes no field of the agent, so a later call is no different.
SecretScan ==
    \E content \in ScanContents :
        /\ nOps = 0
        /\ nOps' = nOps + 1
        /\ res' = [NoResult EXCEPT !.op = "secret_scan", !.content = content,
                                   !.scan = secret_scan(content)]
        /\ UNCHANGED <<pathState, disk, index, head, curBranch, branchLocal, branchRemote,
                       remote, repoBound, lastWritten, autoPush, created, start,
                       api, todos, response, upload>>

SpecScan == InitScan /\ [][SecretScan]_vars

(***************************************************************************)
(* The Todo API served on its own                                          *)
(***************************************************************************)
\* Bound of the model: the largest primary key a row gets.
MaxTodoId == 3

TodoIds == 1..MaxTodoId

Bodies ==
    {NoBody, NullBody, Array,
     Object("title" :> Str("a")),
     Object("title" :> Str("b")),
     Object(("title" :> Str("a")) @@ ("completed" :> Bool(TRUE))),
     Object(("title" :> Str("b")) @@ ("description" :> Str("d"))),
     Object(("title" :> Str("a")) @@ ("extra" :> Str("x"))),
     Object("description" :> Str("d")),
     Object("completed" :> Bool(TRUE)),
     Object("title" :> Number("5")),
     Object("title" :> Null),
     Object(("title" :> Str("a")) @@ ("completed" :> Str("maybe")))}

\* Either blueprint is mounted at /api over an empty table; the agent plays
\* no part.
InitTodo ==
    /\ InitAgent /\ pathState = "absent" /\ ~autoPush /\ branchRemote
    /\ start = Unrecorded
    /\ api \in {"routes", "app.routes"}
    /\ todos = {}
    /\ response = NoResponse
    /\ upload = NoUpload

\* One request and its response.
Serve(method, id, body, result) ==
    /\ todos' = result.todos
    /\ response' = [method |-> method, id |-> id, body |-> body, status |-> result.status,
                    errors |-> result.errors, todo |-> result.todo, listed |-> result.listed]
    /\ UNCHANGED <<pathState, disk, index, head, curBranch, branchLocal, branchRemote,
                   remote, repoBound, lastWritten, autoPush, created, nOps, res, start, api,
                   upload>>

\* GET /api/todos
GetTodos ==
    Serve("GET_ALL", 0, NoBody,
          IF api = "routes" THEN Answer(handle_unexpected_errors(get_todos(todos)))
          ELSE app_get_todos(todos))

\* GET /api/todos/<id>
GetTodo ==
    \E id \in TodoIds :
        Serve("GET", id, NoBody,
              IF api = "routes" THEN Answer(handle_unexpected_errors(get_todo(todos, id)))
              ELSE app_get_todo(todos, id))

\* POST /api/todos
AddTodo ==
    \E body \in Bodies :
        /\ NextId(todos) <= MaxTodoId
        /\ Serve("POST", 0, body,
                 IF api = "routes" THEN Answer(handle_unexpected_errors(add_todo(todos, body)))
                 ELSE app_add_todo(todos, body))

\* PUT /api/todos/<id>
UpdateTodo ==
    \E id \in TodoIds, body \in Bodies :
        Serve("PUT", id, body,
              IF api = "routes"
              THEN Answer(handle_unexpected_errors(update_todo(todos, id, body)))
              ELSE app_update_todo(todos, id, body))

\* DELETE /api/todos/<id>
DeleteTodo ==
    \E id \in TodoIds :
        Serve("DELETE", id, NoBody,
              IF api = "routes" THEN Answer(handle_unexpected_errors(delete_todo(todos, id)))
              ELSE app_delete_todo(todos, id))

NextTodo == GetTodos \/ GetTodo \/ AddTodo \/ UpdateTodo \/ DeleteTodo

SpecTodo == InitTodo /\ [][NextTodo]_vars

(***************************************************************************)
(* The upload service served on its own                                    *)
(***************************************************************************)
\* Bound of the model: the seconds the clock of the service runs through.
MaxUploadTime == 2

UploadNames ==
    {FileName("", FALSE, <<>>),
     FileName("a.mp4", TRUE, <<"m", "p", "4">>),
     FileName("b.MOV", TRUE, <<"M", "O", "V">>),
     FileName("notes.txt", TRUE, <<"t", "x", "t">>),
     FileName("noext", FALSE, <<>>)}

UploadFaults ==
    {"none", "save", "makedirs", "rename", "python_missing", "script_fails",
     "output_missing", "output_malformed", "output_not_utf8"}

InitUpload ==
    /\ InitAgent /\ pathState = "absent" /\ ~autoPush /\ branchRemote
    /\ start = Unrecorded
    /\ NoTodoRequest
    /\ upload = NoUpload

\* The response to a request becomes the current one.
Respond(r, hasFile, filename, t, fault) ==
    /\ upload' = [files |-> r.files, now |-> t, hasFile |-> hasFile, filename |-> filename,
                  fault |-> fault, status |-> r.status, error |-> r.error, raised |-> r.raised]
    /\ UNCHANGED <<pathState, disk, index, head, curBranch, branchLocal, branchRemote,
                   remote, repoBound, lastWritten, autoPush, created, nOps, res, start,
                   api, todos, response>>

\* POST /upload, in the second of the last request or in the next one.
UploadFile ==
    \E hasFile \in BOOLEAN, filename \in UploadNames, fault \in UploadFaults :
    \E t \in {upload.now, upload.now + 1} :
        /\ 1 <= t /\ t <= MaxUploadTime
        /\ Respond(upload_file(upload.files, hasFile, filename, t, fault),
                   hasFile, filename, t, fault)

SpecUpload == InitUpload /\ [][UploadFile]_vars

(***************************************************************************)
(* Properties                                                              *)
(***************************************************************************)
README == "README.md"
KeyFile == "conf/key.pem"

\* The file at path p of the tree d holds text a secret detector matches.
HoldsSecret(d, p) == d[p] # NoFile /\ secret_scan(d[p]) # <<>>

\* The working copy is bound and differs from HEAD at path p alone.
OnlyChange(p) ==
    /\ pathState = "repo" /\ repoBound
    /\ \A q \in Paths \ {p} : disk[q] = head.tree[q] /\ index[q] = head.tree[q]

\* apply_edits({README.md: "hello"}) has just written and staged the file in a
\* working copy that is otherwise clean.
C1_AfterReadmeEdit ==
    /\ res.op = "apply_edits" /\ res.kind = "ok" /\ ~res.faulted
    /\ res.edits = <<[path |-> README, content |-> Hello]>>
    /\ OnlyChange(README)
    /\ disk[README] = Hello /\ index[README] = Hello /\ head.tree[README] # Hello

\* C1: from a clean working copy, after apply_edits({README.md: "hello"}),
\* commit_and_push(push=False, dry_run=False) returns normally with a commit
\* identifier and README.md among the affected files, and a commit was created.

C1_CommitAfterReadmeEdit ==
    [][(C1_AfterReadmeEdit /\ res'.op = "commit_and_push" /\ ~res'.dry /\ ~res'.push /\ ~res'.faulted)
        => (/\ res'.kind = "ok"
            /\ res'.commit # NoCommit
            /\ README \in Range(res'.files)
            /\ created' = created + 1)]_vars

\* apply_edits has just written and staged a file holding a PEM private-key
\* header in a working copy that is otherwise clean.
C2_AfterPemEdit ==
    /\ res.op = "apply_edits" /\ res.kind = "ok" /\ ~res.faulted
    /\ res.edits = <<[path |-> KeyFile, content |-> Pem]>>
    /\ OnlyChange(KeyFile)
    /\ disk[KeyFile] = Pem /\ index[KeyFile] = Pem

\* C2: after apply_edits wrote a file holding a PEM private-key header,
\* commit_and_push(dry_run=False) fails with the secret-detected error naming
\* "Private Key PEM", with no other error, and creates no commit.

C2_SecretErrorAfterPemEdit ==
    [][(C2_AfterPemEdit /\ res'.op = "commit_and_push" /\ ~res'.dry /\ ~res'.faulted)
        => (/\ res'.kind = "SecretDetectedError"
            /\ \E i \in 1..Len(res'.issues) : "Private Key PEM" \in Range(res'.issues[i].issues)
            /\ created' = created)]_vars

\* C3: commit_and_push creates no commit and attempts no push while the
\* on-disk content of a file the commit affects holds text a secret detector
\* matches.
C3_NoCommitWithSecrets ==
    [][(res'.op = "commit_and_push" /\ ~res'.faulted /\ (created' # created \/ res'.pushTried))
        => \A p \in Paths : head'.tree[p] # head.tree[p] => ~HoldsSecret(disk', p)]_vars

\* C4 (as stated): commit_and_push(dry_run=True) creates no commit and invokes
\* no push, whatever the push flag and the working tree; HEAD and the remote
\* are the same before and after the call.
C4_DryRunKeepsHead ==
    [][(res'.op = "commit_and_push" /\ res'.dry)
        => (/\ created' = created
            /\ ~res'.pushTried
            /\ remote' = remote
            /\ pathState = "repo" => head' = head)]_vars

\* C4 (amended): commit_and_push(dry_run=True) creates no commit and invokes
\* no push, whatever the push flag and the working tree; the remote is the
\* same before and after, HEAD is the same when the agent already holds its
\* repository handle, and otherwise HEAD moves at most to the existing tip
\* that materializing the workspace checks out.
C4_DryRunNoCommitNoPush ==
    [][(res'.op = "commit_and_push" /\ res'.dry)
        => (/\ created' = created
            /\ ~res'.pushTried
            /\ remote' = remote
            /\ repoBound => head' = head
            /\ head' \in {head, remote})]_vars

\* A dry run with push requested, on a dirty tree holding an unscanned secret.
C4_Witness ==
    /\ res.op = "commit_and_push" /\ res.dry /\ res.push /\ res.kind = "ok"
    /\ is_dirty(World, FALSE)
    /\ \E p \in Paths : HoldsSecret(disk, p)
    /\ res.files # <<>>

\* C5: a non-dry-run commit_and_push fails with the dirty-tree error only when
\* a tracked file outside the agent's own edits is changed; what apply_edits
\* wrote does not by itself make the guard fail.
C5_DirtyOnlyFromForeignChanges ==
    (res.op = "commit_and_push" /\ res.kind = "DirtyTreeError")
        => \E p \in Paths \ Range(lastWritten) : TrackedChange(World, p)

\* C6: whenever apply_edits(E) returns normally, every path of E is on disk
\* afterwards with exactly the content E gives it.
C6_EditsAreOnDisk ==
    (res.op = "apply_edits" /\ res.kind = "ok")
        => \A i \in 1..Len(res.edits) : disk[res.edits[i].path] = res.edits[i].content

C8_ApplyEditsOffline == res.op = "apply_edits" => ~res.net

\* C9: preview_edits changes neither the files under the local path, nor the
\* checked-out branch, nor the index, nor the commit history.
C9_PreviewChangesNothing ==
    [][res'.op = "preview_edits"
        => UNCHANGED <<pathState, disk, index, head, curBranch, created>>]_vars

\* C10: for a file whose on-disk content equals its committed content,
\* preview_edits({p: that content}) returns the empty diff for p.
C10_UnchangedFileEmptyDiff ==
    (res.op = "preview_edits" /\ pathState = "repo" /\ repoBound)
        => \A i \in 1..Len(res.edits) :
             LET p == res.edits[i].path IN
             (disk[p] # NoFile /\ disk[p] = head.tree[p] /\ res.edits[i].content = disk[p])
                 => res.diffs[i].diff = <<>>

IsOutcome(e) ==
    /\ res'.kind = (IF e.ok THEN "ok" ELSE "SetupError")
    /\ pathState' = e.w.pathState /\ disk' = e.w.disk /\ index' = e.w.index
    /\ head' = e.w.head /\ curBranch' = e.w.curBranch /\ repoBound' = e.w.repoBound
    /\ res'.clones = e.w.clones /\ res'.checkouts = e.w.checkouts

C13_OneFallbackOnly ==
    (res.op = "ensure_repo" /\ res.from = "repo")
        => (/\ res.fetches <= 1
            /\ res.clones = 0
            /\ res.checkouts <= 1 + res.fetches
            /\ res.checkouts <= 2
            /\ (res.faulted /\ res.fetches = 1) => res.checkouts = 1)

\* C14: when commit_and_push(push=True, dry_run=False) has created a commit
\* and the push then fails, the call raises the push error and HEAD stays at
\* the commit just created.
C14_PushFailureKeepsCommit ==
    [][(/\ res'.op = "commit_and_push" /\ res'.push /\ ~res'.dry
        /\ created' = created + 1 /\ res'.pushFailed
        /\ \A p \in Paths : ~HoldsSecret(disk', p))
        => (/\ res'.kind = "PushError"
            /\ head'.id = AgentCommit(created')
            /\ head'.tree = index')]_vars

\* The local path holds a working copy with nothing to commit: working tree,
\* index and HEAD agree on every path.
NothingToCommit ==
    /\ pathState = "repo"
    /\ \A p \in Paths : disk[p] = head.tree[p] /\ index[p] = head.tree[p]

\* C15 (as stated): when there is nothing to commit, a non-dry-run
\* commit_and_push returns normally with a null commit identifier, creates no
\* commit and leaves HEAD unchanged.
C15_NoOpCommit ==
    [][(NothingToCommit /\ res'.op = "commit_and_push" /\ ~res'.dry /\ ~res'.faulted)
        => (/\ res'.kind = "ok"
            /\ res'.commit = NoCommit
            /\ created' = created
            /\ head' = head)]_vars

\* C15 (amended): when there is nothing to commit, a non-dry-run
\* commit_and_push creates no commit and returns no commit identifier; on an
\* agent that holds its repository handle (as after a successful commit) it
\* returns normally and leaves HEAD unchanged; on an agent with no handle yet
\* it first materializes the workspace, which can raise the setup error or
\* move HEAD to the existing tip of the requested branch.
C15_NoOpCommitWhenBound ==
    [][(NothingToCommit /\ res'.op = "commit_and_push" /\ ~res'.dry /\ ~res'.faulted)
        => (/\ res'.commit = NoCommit
            /\ created' = created
            /\ res'.kind \in {"ok", "SetupError"}
            /\ head' \in {head, remote}
            /\ repoBound => (res'.kind = "ok" /\ head' = head))]_vars

\* commit_and_push called again right after a successful commit returned the
\* no-op outcome.
C15_Witness ==
    /\ res.op = "commit_and_push" /\ ~res.dry /\ res.kind = "ok" /\ ~res.faulted
    /\ res.commit = NoCommit /\ res.files = <<>>
    /\ created = 1 /\ head.id = AgentCommit(1)
    /\ NothingToCommit

\* The outcome o of a call is the state after this step and the result the
\* step returned.
SameOutcome(o) ==
    /\ pathState' = o.w.pathState /\ disk' = o.w.disk /\ index' = o.w.index
    /\ head' = o.w.head /\ curBranch' = o.w.curBranch
    /\ branchLocal' = o.w.branchLocal /\ branchRemote' = o.w.branchRemote
    /\ remote' = o.w.remote /\ repoBound' = o.w.repoBound
    /\ lastWritten' = o.w.lastWritten /\ created' = o.w.created
    /\ res'.kind = o.kind /\ res'.commit = o.commit /\ res'.files = o.files
    /\ res'.diffs = o.diffs /\ res'.issues = o.issues

\* The state w a call left is the current state.
IsState(w) ==
    /\ pathState = w.pathState /\ disk = w.disk /\ index = w.index
    /\ head = w.head /\ curBranch = w.curBranch
    /\ branchLocal = w.branchLocal /\ branchRemote = w.branchRemote
    /\ remote = w.remote /\ repoBound = w.repoBound
    /\ lastWritten = w.lastWritten /\ created = w.created
    /\ res.faulted = w.faulted

\* C16: apply_edits(E) followed by commit_and_push(push=True, dry_run) leaves
\* the state and returns the result that apply_and_push(E, dry_run) leaves and
\* returns from the same starting state; and when the apply_edits stage of
\* apply_and_push fails, that failure is the result and commit_and_push has
\* not run (no commit, no push, index and HEAD as they were).
\* The two calls are compared where the environment fails in neither, or
\* only the staging inside apply_edits fails.
C16_ApplyAndPushIsComposition ==
    [][/\ \A f \in {"none", "stage"} :
            (/\ nOps = 1 /\ res.op = "apply_edits" /\ res.kind = "ok"
             /\ res'.op = "commit_and_push" /\ res'.push /\ ~res'.faulted
             /\ IsState(apply_edits(start, res.edits, 0, "write", f).w))
            => SameOutcome(apply_and_push(start, res.edits, res'.dry, 0, "write", f))
       /\ (res'.op = "apply_and_push" /\ res'.kind \in {"IOFailure", "OSError"})
          => (/\ created' = created /\ ~res'.pushTried /\ res'.commit = NoCommit
              /\ head' = head /\ index' = index /\ remote' = remote
              /\ repoBound' = repoBound)]_vars

\* apply_edits then commit_and_push(push=True) created and pushed a commit.
C16_Witness ==
    /\ nOps = 2 /\ res.op = "commit_and_push" /\ res.push /\ ~res.dry
    /\ res.kind = "ok" /\ ~res.faulted
    /\ created = 1 /\ remote = head /\ head.id = AgentCommit(1)
    /\ start.lastWritten = <<>> /\ lastWritten # <<>>

\* The detector names in the order the claim gives.
DetectorOrder ==
    <<"AWS Access Key", "AWS Secret Key", "Private Key PEM", "RSA PRIVATE KEY",
      "JWT token", "Generic API Key">>

\* The pattern of the detector of that name occurs in the text.
Occurs(name, text) ==
    \E i \in 1..Len(SECRET_PATTERNS) :
        SECRET_PATTERNS[i].name = name /\ Search(SECRET_PATTERNS[i].re, text)

\* The text has fewer than 32 alphanumeric characters in a row: every 32
\* characters in a row hold one that is not alphanumeric.
FewerThan32Alnum(text) ==
    \A i \in 1..(Len(text) - 31) : \E k \in i..(i + 31) : text[k] \notin Alnum

\* Atoms whose text holds no part of any pattern but an alphanumeric run.
PlainAtoms == {"h", "NL", "ALNUM31", "ALNUM32", "GAP20", "B40", "B39", "."}

\* C17: secret_scan(content) returns exactly the names of the detectors whose
\* pattern occurs in content, in the order AWS Access Key, AWS Secret Key,
\* Private Key PEM, RSA PRIVATE KEY, JWT token, Generic API Key (the empty
\* list when none occurs), and changes no state of the agent; a 40-character
\* base64-like run after "aws_secret_key=" yields "AWS Secret Key"; a content
\* with fewer than 32 alphanumerics in a row and no other pattern yields the
\* empty list.
C17_SecretScanNames ==
    res.op = "secret_scan"
        => (/\ res.scan = SelectSeq(DetectorOrder, LAMBDA n : Occurs(n, Text(res.content)))
            /\ (\E k \in 1..(Len(res.content) - 1) :
                    res.content[k] = "AWSKEY=" /\ res.content[k + 1] = "B40")
                  => "AWS Secret Key" \in Range(res.scan)
            /\ (/\ Range(res.content) \subseteq PlainAtoms
                /\ FewerThan32Alnum(Text(res.content)))
                  => res.scan = <<>>
            /\ pathState = "absent" /\ ~repoBound /\ lastWritten = <<>> /\ created = 0)

\* A scan that found two detectors, the AWS secret key after
\* "aws_secret_key=" among them.
C17_Witness ==
    /\ res.op = "secret_scan"
    /\ res.content = <<"AWSKEY=", "B40", "PEM">>
    /\ res.scan = <<"AWS Secret Key", "Private Key PEM">>

C19_MissingIdIs404 ==
    [][(response'.method \in {"GET", "PUT", "DELETE"} /\ Find(todos, response'.id) = {})
       => (response'.status = 404 /\ todos' = todos)]_vars

\* C20: POST /api/todos with a JSON body that todo_schema.load rejects (a
\* body Python takes as true; a missing title is one case) answers with
\* HTTP 400 carrying the validation errors, and the stored set of todos is
\* unchanged.
C20_InvalidBodyIs400 ==
    [][(response'.method = "POST" /\ ~Falsy(response'.body)
        /\ load(response'.body, FALSE).errors # {})
       => (/\ response'.status = 400
           /\ response'.errors = load(response'.body, FALSE).errors
           /\ todos' = todos)]_vars

(***************************************************************************)
(* The change record, failures of apply_edits, re-materialization          *)
(***************************************************************************)
\* C21: after every apply_edits(E) that returns normally, _last_written_paths
\* is exactly the list of the paths of E in E's order, whatever an earlier
\* call recorded.
C21_ChangeRecordReplaced ==
    [][(res'.op = "apply_edits" /\ res'.kind = "ok")
        => (lastWritten' = EditPaths(res'.edits) /\ res'.files = EditPaths(res'.edits))]_vars

\* A second apply_edits, of README.md alone, has replaced the record of a
\* first one that wrote conf/key.pem and README.md.
C21_Witness ==
    /\ nOps = 2 /\ res.op = "apply_edits" /\ res.kind = "ok"
    /\ disk[KeyFile] = Hello
    /\ lastWritten = <<README>>

\* C22: a filesystem failure while apply_edits applies an entry (creating
\* its parent directories or writing the file) surfaces as IOFailure, and
\* the files written for the earlier entries of the call remain written.
C22_WriteFailureIsIOFailure ==
    [][(res'.op = "apply_edits" /\ res'.failAt > 0)
        => (/\ res'.kind = "IOFailure"
            /\ \A i \in 1..(res'.failAt - 1) :
                   disk'[res'.edits[i].path] = res'.edits[i].content)]_vars

\* C23: once the workspace has been materialized (the agent holds its
\* handle), an apply_edits, preview_edits, ensure_clean_worktree or
\* commit_and_push that finds the local path no longer a working copy
\* discards it and clones again before it proceeds.
C23_ReclonedWhenInvalid ==
    [][(/\ res'.op \in {"apply_edits", "preview_edits", "ensure_clean_worktree", "commit_and_push"}
        /\ repoBound /\ pathState # "repo")
       => (res'.clones > 0 /\ (pathState' = "repo" \/ res'.kind = "SetupError"))]_vars

(***************************************************************************)
(* Old content, the clean check                                            *)
(***************************************************************************)
\* The old content the diff of a path is to be taken against: the version at
\* HEAD when the agent holds a working copy and the path exists at HEAD,
\* else the content on disk when the file exists, else the empty string.
ExpectedOld(bound, h, d, name) ==
    IF bound /\ name \in Paths /\ h.tree[name] # NoFile THEN h.tree[name]
    ELSE IF name \in Paths /\ d[name] # NoFile THEN ReadOrEmpty(d, name)
    ELSE Empty

\* C24: for each path given to preview_edits, the diff is taken against the
\* version at HEAD if the path exists at HEAD (whatever its content, an
\* empty file included), otherwise against the content on disk if the file
\* exists, otherwise against the empty string.
C24_OldContentPrefersHead ==
    [][res'.op = "preview_edits"
        => \A i \in 1..Len(res'.edits) :
              res'.diffs[i].diff =
                  unified_diff(ExpectedOld(repoBound' /\ pathState' = "repo", head', disk',
                                           res'.edits[i].path),
                               res'.edits[i].content)]_vars

\* C25: ensure_clean_worktree(allow_untracked) reports clean whenever the
\* local path is no working copy; otherwise it reports dirty exactly when a
\* tracked file is modified (in the index or in the working tree) or, with
\* allow_untracked false, an untracked file exists.  The working copy is
\* taken as the call leaves it.
C25_CleanReport ==
    [][res'.op = "ensure_clean_worktree"
        => /\ res'.kind = "ok"
           /\ res'.clean =
                 (\/ pathState' # "repo"
                  \/ ~(\/ \E p \in Paths : TrackedChange(World', p)
                       \/ ~res'.allow /\ \E p \in Paths : Untracked(World', p)))]_vars

(***************************************************************************)
(* The upload service                                                      *)
(***************************************************************************)
\* C26: when the file is saved and the processing script succeeds but
\* output.json is not valid JSON, POST /upload answers with HTTP 500, the
\* 'output file malformed' error, not with a client-error status.
C26_MalformedOutputIs500 ==
    [][(upload'.hasFile /\ upload'.raised = "JSONDecodeError")
        => (upload'.status = 500 /\ upload'.error = "output malformed")]_vars

(***************************************************************************)
(* The handle after a failed ensure_repo                                   *)
(***************************************************************************)
\* C27: when ensure_repo raises, the agent holds no repository handle
\* afterwards (_repo is None), so that a later apply_edits or
\* commit_and_push attempts the materialization again instead of working in
\* a working copy that is not on the requested branch.
C27_NoHandleAfterFailedEnsureRepo ==
    [][(res'.op = "ensure_repo" /\ res'.kind = "SetupError") => ~repoBound']_vars

(***************************************************************************)
(* What a push leaves on the remote                                        *)
(***************************************************************************)
\* C28: whenever commit_and_push(push=True, dry_run=False) returns normally,
\* the remote branch holds every commit the agent created on the requested
\* branch: with the branch checked out at a commit of the agent, the remote
\* branch is at that commit, also when an earlier call left it unpushed.
C28_RemoteHoldsLocalCommits ==
    [][(/\ res'.op = "commit_and_push" /\ res'.push /\ ~res'.dry /\ res'.kind = "ok"
        /\ pathState' = "repo" /\ curBranch' = "main"
        /\ created' > 0 /\ head'.id = AgentCommit(created'))
       => remote' = head']_vars

(***************************************************************************)
(* No empty commit                                                         *)
(***************************************************************************)
\* C29: commit_and_push never creates an empty commit.  A call creates at
\* most one commit; the commit is the staged index, which then holds the
\* whole working tree and differs from the HEAD it is made on; and a call
\* whose staging step failed has created no commit.
C29_NoEmptyCommit ==
    [][/\ (created' # created
           => /\ created' = created + 1 /\ Len(res'.parents) = 1
              /\ head'.id = AgentCommit(created')
              /\ head'.tree = index' /\ index' = disk'
              /\ head'.tree # res'.parents[1])
       /\ (res'.kind = "StageError" => created' = created /\ res'.parents = <<>>)]_vars

\* A commit was made of a staged change; elsewhere the staging step fails.
C29_Witness ==
    /\ res.op = "commit_and_push" /\ res.kind = "ok" /\ res.commit = AgentCommit(1)
    /\ created = 1 /\ head.id = AgentCommit(1)
    /\ res.parents = <<EmptyTree>> /\ head.tree[README] = Hello

(***************************************************************************)
(* The diffs of a dry run                                                  *)
(***************************************************************************)
\* The content of a file in a tree, a file that is not there counting as
\* empty.
ContentIn(tree, name) == IF tree[name] = NoFile THEN Empty ELSE tree[name]

\* C30: in commit_and_push(dry_run=True), every affected file whose content
\* on disk differs from its content at HEAD, a file absent from HEAD
\* counting as empty, gets a non-empty diff in the returned diff map.
C30_DryRunDiffsEveryChange ==
    [][(res'.op = "commit_and_push" /\ res'.dry /\ res'.kind = "ok" /\ pathState' = "repo")
       => \A i \in 1..Len(res'.files) :
             (/\ res'.files[i] \in Paths
              /\ ContentIn(disk', res'.files[i]) # ContentIn(head'.tree, res'.files[i]))
             => (res'.diffs[i].path = res'.files[i] /\ res'.diffs[i].diff # <<>>)]_vars

====
